---- MODULE Spec2Model ----
(***************************************************************************)
(* Model of the schema reconciliation tests of mex-common                  *)
(* (tests/models/test_model_schemas.py): the field normalizer              *)
(* prepare_field with its helpers, and the comparator tests that use it.   *)
(*                                                                         *)
(* JSON values are tagged records [t, v]:                                  *)
(*   "str"  with v a string,   "int" with v an integer,                    *)
(*   "list" with v the sequence of items,                                  *)
(*   "dict" with v the sequence of <<key, value>> pairs in insertion       *)
(*          order (a Python dict keeps it, json.dumps writes it).          *)
(***************************************************************************)
EXTENDS Integers, Sequences, FiniteSets, TLC

VARIABLES
    pc,         \* position of the normalizer run
    field,      \* the field name handed to prepare_field
    obj,        \* the raw fragment
    hashOrder,  \* iteration order of the set {"anyOf", "allOf"} in this process
    out,        \* outcome of prepare_field(field, obj)
    again,      \* outcome of prepare_field on the fragment of out
    permuted,   \* obj with the alternatives of one union list permuted
    outPerm,    \* outcome of prepare_field(field, permuted)
    elsewhere,  \* outcome of prepare_field(field, obj) in another process
    phase,      \* position of the test module: "start", "loaded", "failed"
    classes,    \* EXTRACTED_MODEL_CLASSES_BY_NAME, each class with its JSON schema
    files,      \* the documents of mex.model's entities directory
    GENERATED_SCHEMAS,
    SPECIFIED_SCHEMAS,
    ENTITY_TYPES_AND_FIELD_NAMES_BY_FQN,
    report,     \* the outcome of the test that ran last
    SettingsContext,  \* the context variable: None or the cached settings
    environ,    \* whether the environment validates as settings
    created,    \* number of settings instances constructed so far
    call        \* the last call of get: class, context found and left, outcome

normalizerVars == <<pc, field, obj, out, again, permuted, outPerm, elsewhere>>
comparatorVars == <<phase, classes, files, GENERATED_SCHEMAS, SPECIFIED_SCHEMAS,
                    ENTITY_TYPES_AND_FIELD_NAMES_BY_FQN, report>>
settingsVars == <<SettingsContext, environ, created, call>>
vars == <<normalizerVars, hashOrder, comparatorVars, settingsVars>>

----------------------------------------------------------------------------
(* JSON values *)

None == [t |-> "none", v |-> 0]

S(s) == [t |-> "str", v |-> s]
N(n) == [t |-> "int", v |-> n]
L(items) == [t |-> "list", v |-> items]
D(pairs) == [t |-> "dict", v |-> pairs]

IsDict(x) == x.t = "dict"
IsList(x) == x.t = "list"
IsStr(x) == x.t = "str"

\* key in dct
Has(dct, key) == \E i \in 1..Len(dct.v) : dct.v[i][1] = key

\* dct[key], for a key that is present
Get(dct, key) == dct.v[CHOOSE i \in 1..Len(dct.v) : dct.v[i][1] = key][2]

\* dct.pop(key, None): the dict without the key
Pop(dct, key) == D(SelectSeq(dct.v, LAMBDA p : p[1] # key))

\* dct[key] = value: a present key keeps its place, a new key goes last
Set(dct, key, value) ==
    IF Has(dct, key)
    THEN D([i \in 1..Len(dct.v) |->
              IF dct.v[i][1] = key THEN <<key, value>> ELSE dct.v[i]])
    ELSE D(Append(dct.v, <<key, value>>))

\* dct.update(other)
RECURSIVE UpdatePairs(_, _)
UpdatePairs(dct, pairs) ==
    IF pairs = <<>> THEN dct
    ELSE UpdatePairs(Set(dct, Head(pairs)[1], Head(pairs)[2]), Tail(pairs))

Update(dct, other) == UpdatePairs(dct, other.v)

\* Python's ==: lists compare in order, dicts as mappings whatever the key order
RECURSIVE JEq(_, _)
JEq(a, b) ==
    IF a.t # b.t THEN FALSE
    ELSE IF a.t = "list"
    THEN /\ Len(a.v) = Len(b.v)
         /\ \A i \in 1..Len(a.v) : JEq(a.v[i], b.v[i])
    ELSE IF a.t = "dict"
    THEN /\ Len(a.v) = Len(b.v)
         /\ \A i \in 1..Len(a.v) :
               /\ Has(b, a.v[i][1])
               /\ JEq(a.v[i][2], Get(b, a.v[i][1]))
    ELSE a.v = b.v

\* Python's truth value of a JSON value
Truthy(x) ==
    IF x.t \in {"list", "dict"} THEN Len(x.v) > 0
    ELSE IF x.t = "str" THEN x.v # ""
    ELSE x.v # 0

----------------------------------------------------------------------------
(* Strings *)

UpperChars == {"A","B","C","D","E","F","G","H","I","J","K","L","M",
               "N","O","P","Q","R","S","T","U","V","W","X","Y","Z"}
LowerChars == {"a","b","c","d","e","f","g","h","i","j","k","l","m",
               "n","o","p","q","r","s","t","u","v","w","x","y","z"}
LowerOf == [A |-> "a", B |-> "b", C |-> "c", D |-> "d", E |-> "e", F |-> "f",
            G |-> "g", H |-> "h", I |-> "i", J |-> "j", K |-> "k", L |-> "l",
            M |-> "m", N |-> "n", O |-> "o", P |-> "p", Q |-> "q", R |-> "r",
            S |-> "s", T |-> "t", U |-> "u", V |-> "v", W |-> "w", X |-> "x",
            Y |-> "y", Z |-> "z"]

CharAt(s, i) == SubSeq(s, i, i)
lower(c) == IF c \in UpperChars THEN LowerOf[c] ELSE c

\* str.removeprefix, str.removesuffix, str.startswith
removeprefix(s, p) ==
    IF Len(s) >= Len(p) /\ SubSeq(s, 1, Len(p)) = p
    THEN SubSeq(s, Len(p) + 1, Len(s)) ELSE s
removesuffix(s, p) ==
    IF Len(p) > 0 /\ Len(s) >= Len(p) /\ SubSeq(s, Len(s) - Len(p) + 1, Len(s)) = p
    THEN SubSeq(s, 1, Len(s) - Len(p)) ELSE s
startswith(s, p) == Len(s) >= Len(p) /\ SubSeq(s, 1, Len(p)) = p

\* mex.common.transform.dromedary_to_kebab: a hyphen goes before every capital
\* that starts a word (after a small letter, or before one when it ends a run
\* of capitals), and every letter is lowered
RECURSIVE KebabFrom(_, _)
KebabFrom(s, i) ==
    IF i > Len(s) THEN ""
    ELSE LET c == CharAt(s, i)
             startsWord ==
                 /\ c \in UpperChars
                 /\ i > 1
                 /\ \/ CharAt(s, i - 1) \in LowerChars
                    \/ /\ CharAt(s, i - 1) \in UpperChars
                       /\ i < Len(s)
                       /\ CharAt(s, i + 1) \in LowerChars
         IN (IF startsWord THEN "-" ELSE "") \o lower(c) \o KebabFrom(s, i + 1)

dromedary_to_kebab(s) == KebabFrom(s, 1)

\* the characters of the class [a-zA-Z_-]
IsTextChar(c) == c \in UpperChars \cup LowerChars \cup {"_", "-"}

\* the end of the longest run of text characters that starts at i
RECURSIVE RunEnd(_, _)
RunEnd(s, i) ==
    IF i < Len(s) /\ IsTextChar(CharAt(s, i + 1)) THEN RunEnd(s, i + 1) ELSE i

\* re.sub(r"([a-zA-Z_-]+)", lambda m: repl(m.group(0)), string)
RECURSIVE SubFrom(_, _, _)
SubFrom(repl, s, i) ==
    IF i > Len(s) THEN ""
    ELSE IF IsTextChar(CharAt(s, i))
    THEN LET j == RunEnd(s, i)
         IN repl[SubSeq(s, i, j)] \o SubFrom(repl, s, j + 1)
    ELSE CharAt(s, i) \o SubFrom(repl, s, i + 1)

\* repl is the function handed in, applied to each run of text
sub_only_text(repl, string) == SubFrom(repl, string, 1)

----------------------------------------------------------------------------
(* Constants of the comparison *)

\* mex.common.types.identifier.MEX_ID_PATTERN and
\* mex.common.types.timestamp.TIMESTAMP_REGEX: prepare_field only compares
\* patterns with them
MEX_ID_PATTERN == "^[a-zA-Z0-9]{14,22}$"
TIMESTAMP_REGEX == "^[0-9]{4}(-[0-9]{2}){0,2}(T[0-9]{2}:[0-9]{2}:[0-9]{2}Z)?$"

ITEM_PREFIX == "https://mex.rki.de/item/"
FIELDS_PATH == "/schema/fields/"
IDENTIFIER_REF == "/schema/fields/identifier"
CONCEPT_REF == "/schema/entities/concept#/identifier"

\* "/schema/entities/{}#/identifier".format(name)
EntityRef(name) == "/schema/entities/" \o name \o "#/identifier"

----------------------------------------------------------------------------
(* json.dumps, deduplicate_dicts, dissolve_single_item_lists *)

RECURSIVE json_dumps(_), DumpItems(_, _), DumpPairs(_, _)
json_dumps(x) ==
    IF x.t = "str" THEN "\"" \o x.v \o "\""
    ELSE IF x.t = "int" THEN ToString(x.v)
    ELSE IF x.t = "list" THEN "[" \o DumpItems(x.v, 1) \o "]"
    ELSE "{" \o DumpPairs(x.v, 1) \o "}"
DumpItems(items, i) ==
    IF i > Len(items) THEN ""
    ELSE (IF i > 1 THEN ", " ELSE "") \o json_dumps(items[i])
         \o DumpItems(items, i + 1)
DumpPairs(pairs, i) ==
    IF i > Len(pairs) THEN ""
    ELSE (IF i > 1 THEN ", " ELSE "") \o "\"" \o pairs[i][1] \o "\": "
         \o json_dumps(pairs[i][2]) \o DumpPairs(pairs, i + 1)

\* what `for d in x` yields: the items of a list, the keys of a dict
IterItems(x) ==
    IF x.t = "dict" THEN [i \in 1..Len(x.v) |-> S(x.v[i][1])] ELSE x.v

\* dct[key] = [json.loads(s) for s in dict.fromkeys(json.dumps(d) for d in dct[key])]
\* dict.fromkeys keeps the first of the items with equal dumps, in their order,
\* and json.loads rebuilds the dumped item with its keys in the dumped order
deduplicate_dicts(dct, key) ==
    LET items == IterItems(Get(dct, key))
        dumps == [i \in 1..Len(items) |-> json_dumps(items[i])]
        first == {i \in 1..Len(items) : \A j \in 1..(i - 1) : dumps[j] # dumps[i]}
        RECURSIVE Kept(_)
        Kept(i) == IF i > Len(items) THEN <<>>
                   ELSE (IF i \in first THEN <<items[i]>> ELSE <<>>) \o Kept(i + 1)
    IN Set(dct, key, L(Kept(1)))

\* dissolve_single_item_lists that leaves the list on the dict
dissolve_without_pop(dct, key) ==
    LET lst == Get(dct, key)
    IN IF Len(lst.v) = 1 /\ IsDict(lst.v[1])
       THEN Update(dct, lst.v[1])
       ELSE dct

\* if len(dct[key]) == 1 and isinstance(dct[key][0], dict):
\*     dct.update(dct.pop(key)[0])
dissolve_single_item_lists(dct, key) ==
    LET lst == Get(dct, key)
    IN IF Len(lst.v) = 1 /\ IsDict(lst.v[1])
       THEN Update(Pop(dct, key), lst.v[1])
       ELSE dct

----------------------------------------------------------------------------
(* prepare_field *)

\* the outcome of a call: the exception raised ("" for none) and the object
\* as the call left it (prepare_field works in place)
Ok(x) == [exc |-> "", obj |-> x]
Raise(e, x) == [exc |-> e, obj |-> x]
Raised(r) == r.exc # ""

\* obj.pop("sameAs", None); obj.pop("subPropertyOf", None); obj.pop("description", None)
DropAnnotations(d) == Pop(Pop(Pop(d, "sameAs"), "subPropertyOf"), "description")

\* obj.pop(key, "")
PopOrEmpty(d, key) == IF Has(d, key) THEN Get(d, key) ELSE S("")

\* obj.get(key) == string
GetIs(d, key, string) == Has(d, key) /\ JEq(Get(d, key), S(string))

\* ignore differences between dates and datetimes
IsDateLike(d) ==
    \/ GetIs(d, "format", "date")
    \/ GetIs(d, "format", "date-time")
    \/ GetIs(d, "pattern", TIMESTAMP_REGEX)

\* the date rule without obj.pop("pattern", None)
DateRule_keeps_pattern(d) ==
    IF IsDateLike(d)
    THEN Set(Pop(d, "examples"), "format", S("date-time"))
    ELSE d

DateRule(d) ==
    IF IsDateLike(d)
    THEN Set(Pop(Pop(d, "examples"), "pattern"), "format", S("date-time"))
    ELSE d

\* the name without .removeprefix("Extracted")
EntityName_keeps_extracted(title) ==
    removeprefix(removesuffix(title, "Identifier"), "Merged")

\* the name of the referenced entity, from the title
EntityName(title) ==
    removeprefix(removeprefix(removesuffix(title, "Identifier"), "Merged"),
                 "Extracted")

\* align reference paths: the identifier pattern becomes a reference
IdentifierRule(fieldName, title, d) ==
    IF ~GetIs(d, "pattern", MEX_ID_PATTERN) THEN Ok(d)
    ELSE LET d1 == Pop(d, "pattern")
         IN IF ~Has(d1, "type") THEN Raise("KeyError", d1)
            ELSE IF fieldName \in {"identifier", "stableTargetId"}
            THEN Ok(Set(Pop(d1, "type"), "$ref", S(IDENTIFIER_REF)))
            ELSE IF ~IsStr(title) THEN Raise("AttributeError", Pop(d1, "type"))
            ELSE Ok(Set(Pop(d1, "type"), "$ref", S(EntityRef(EntityName(title.v)))))

\* align concept/enum annotations
ConceptRule(vocabulary, d) ==
    IF GetIs(d, "$ref", CONCEPT_REF)
    THEN Set(d, "$ref", S(FIELDS_PATH \o vocabulary))
    ELSE d

\* a reference left as it is written
KebabRule_skipped(d) ==
    IF ~Has(d, "$ref") THEN Ok(d)
    ELSE IF ~IsStr(Get(d, "$ref")) THEN Raise("TypeError", d)
    ELSE Ok(d)

\* make sure all refs have paths in kebab-case
KebabRule(d) ==
    IF ~Has(d, "$ref") THEN Ok(d)
    ELSE IF ~IsStr(Get(d, "$ref")) THEN Raise("TypeError", d)
    ELSE Ok(Set(d, "$ref", S(sub_only_text([text \in STRING |-> dromedary_to_kebab(text)],
                                           Get(d, "$ref").v))))

\* {"anyOf", "allOf"} & set(obj), in the order this process iterates the set
Quantifiers(order, d) == SelectSeq(order, LAMBDA q : Has(d, q))

RECURSIVE prepare_field(_, _, _), PrepareItems(_, _, _, _), PrepareUnions(_, _, _, _)

\* for item in obj: prepare_field(field, item), stopping at the first
\* exception
PrepareItems(fieldName, items, i, order) ==
    IF i > Len(items) THEN Ok(L(items))
    ELSE LET r == prepare_field(fieldName, items[i], order)
             items1 == [items EXCEPT ![i] = r.obj]
         IN IF Raised(r) THEN Raise(r.exc, L(items1))
            ELSE PrepareItems(fieldName, items1, i + 1, order)

\* for quantifier in ...: prepare choices, deduplicate items, collapse
\* non-choices
PrepareUnions(fieldName, d, quantifiers, order) ==
    IF quantifiers = <<>> THEN Ok(d)
    ELSE LET q == Head(quantifiers)
             r == prepare_field(fieldName, Get(d, q), order)
             d1 == Set(d, q, r.obj)
         IN IF Raised(r) THEN Raise(r.exc, d1)
            ELSE PrepareUnions(fieldName,
                               dissolve_single_item_lists(deduplicate_dicts(d1, q), q),
                               Tail(quantifiers), order)

\* recurse into the field definitions for array items
ArrayRule(fieldName, d, order) ==
    IF ~GetIs(d, "type", "array") THEN Ok(d)
    ELSE IF ~Has(d, "items") THEN Raise("KeyError", d)
    ELSE LET r == prepare_field(fieldName, Get(d, "items"), order)
         IN [exc |-> r.exc, obj |-> Set(d, "items", r.obj)]

PrepareDict(fieldName, d0, order) ==
    LET d1 == DropAnnotations(d0)
        title == PopOrEmpty(d1, "title")
        use_scheme == PopOrEmpty(d1, "useScheme")
        d2 == Pop(Pop(d1, "title"), "useScheme")
    IN IF ~IsStr(use_scheme) THEN Raise("AttributeError", d2)
       ELSE LET vocabulary == removeprefix(use_scheme.v, ITEM_PREFIX)
                r3 == IdentifierRule(fieldName, title, DateRule(d2))
            IN IF Raised(r3) THEN r3
               ELSE LET r4 == KebabRule(ConceptRule(vocabulary, r3.obj))
                    IN IF Raised(r4) THEN r4
                       ELSE LET r5 == ArrayRule(fieldName, r4.obj, order)
                            IN IF Raised(r5) THEN r5
                               ELSE PrepareUnions(fieldName, r5.obj,
                                                  Quantifiers(order, r5.obj), order)

prepare_field(fieldName, x, order) ==
    IF IsList(x)
    THEN LET r == PrepareItems(fieldName, x.v, 1, order)
         IN IF Raised(r) THEN r
            ELSE Ok(L(SelectSeq(r.obj.v, Truthy)))
    ELSE IF IsDict(x) THEN PrepareDict(fieldName, x, order)
    ELSE Raise("AttributeError", x)

----------------------------------------------------------------------------
(* The fragments the normalizer is run on *)

\* at most this many alternatives in a generated union list
MaxAlts == 2

FieldNames == {"identifier", "stableTargetId", "contact"}

\* set iteration orders of {"anyOf", "allOf"}: the hash of a str changes from
\* one process to the next
HashOrders == {<<"anyOf", "allOf">>, <<"allOf", "anyOf">>}

StringType == D(<< <<"type", S("string")>> >>)
DateType == D(<< <<"type", S("string")>>, <<"format", S("date")>> >>)
DateTimeType == D(<< <<"format", S("date-time")>>, <<"type", S("string")>> >>)
TimestampType ==
    D(<< <<"type", S("string")>>, <<"pattern", S(TIMESTAMP_REGEX)>>,
         <<"examples", L(<<S("2022-09-30T20:48:35Z")>>)>>,
         <<"title", S("Timestamp")>> >>)
UriType ==
    D(<< <<"type", S("string")>>, <<"format", S("uri")>>,
         <<"pattern", S("^https://")>> >>)

\* an identifier field as pydantic generates it: the title is the class name
IdentifierType(title) ==
    D(<< <<"pattern", S(MEX_ID_PATTERN)>>, <<"title", S(title)>>,
         <<"type", S("string")>> >>)

\* a vocabulary field as the specification writes it, and as pydantic does
ConceptField(vocabulary) ==
    D(<< <<"$ref", S(CONCEPT_REF)>>,
         <<"useScheme", S(ITEM_PREFIX \o vocabulary)>> >>)
EnumField(className) == D(<< <<"$ref", S(FIELDS_PATH \o className)>> >>)

ArrayOf(items) == D(<< <<"type", S("array")>>, <<"items", items>> >>)

\* the alternatives of generated union lists
Alternatives ==
    << StringType, DateType, DateTimeType, TimestampType,
       IdentifierType("MergedPersonIdentifier"),
       D(<< <<"description", S("hint")>> >>),
       D(<< <<"anyOf", L(<<StringType, D(<< <<"type", S("null")>> >>)>>)>> >>),
       S("string"),
       UriType >>

\* the keys a fragment carries beside its union list
Bases ==
    << D(<<>>),
       D(<< <<"format", S("date")>>, <<"sameAs", S("http://purl.org/dc/terms/date")>> >>),
       D(<< <<"title", S("Contact")>>, <<"examples", L(<<S("2022")>>)>> >>) >>

\* class names pydantic gives as titles of identifier fields
Titles ==
    << "ResourceIdentifier", "MergedPersonIdentifier",
       "ExtractedOrganizationalUnitIdentifier", "ConceptIdentifier",
       "MergedExtractedActivity", "Identifier", "" >>

\* vocabularies of mex.model, as <<scheme name, enum class name>>
Vocabularies ==
    << <<"data-type", "DataType">>, <<"license", "License">>,
       <<"api-type", "APIType">>,
       <<"anonymization-pseudonymization", "AnonymizationPseudonymization">> >>

\* fragments without a union list
Leaves ==
    [i \in 1..Len(Titles) |-> IdentifierType(Titles[i])]
    \o [i \in 1..Len(Vocabularies) |-> ConceptField(Vocabularies[i][1])]
    \o [i \in 1..Len(Vocabularies) |-> EnumField(Vocabularies[i][2])]
    \o << StringType, DateType, DateTimeType, TimestampType, UriType,
          D(<< <<"pattern", S(MEX_ID_PATTERN)>> >>),
          D(<< <<"type", S("array")>> >>),
          D(<< <<"format", S("date")>>, <<"pattern", S(MEX_ID_PATTERN)>>,
               <<"type", S("string")>> >>),
          D(<< <<"pattern", S(MEX_ID_PATTERN)>>, <<"type", S("string")>> >>),
          D(<< <<"$ref", S("/schema/entities/Concept#/identifier")>> >>),
          D(<< <<"$ref", L(<<>>)>> >>),
          D(<< <<"useScheme", N(1)>> >>),
          D(<< <<"enum", L(<<S("a"), S("b")>>)>>, <<"subPropertyOf", S("x")>> >>),
          ArrayOf(IdentifierType("MergedContactPointIdentifier")),
          ArrayOf(DateType),
          ArrayOf(L(<<DateType, D(<<>>)>>)),
          ArrayOf(N(0)) >>

\* the lists of at most n alternatives, as lists of indices
AltLists(n) == UNION {[1..k -> 1..Len(Alternatives)] : k \in 0..n}
AltList(ixs) == L([i \in 1..Len(ixs) |-> Alternatives[ixs[i]]])

\* a fragment with one union list
UnionFragment(b, q, ixs) == Set(Bases[b], q, AltList(ixs))

\* a fragment with both union lists, of one alternative each
BothFragment(q1, i1, q2, i2) ==
    D(<< <<q1, L(<<Alternatives[i1]>>)>>, <<q2, L(<<Alternatives[i2]>>)>> >>)

Unset == [exc |-> "unset", obj |-> D(<<>>)]

----------------------------------------------------------------------------
(* The normalizer run *)

NoReport == [test |-> "", id |-> "", exc |-> "", passed |-> TRUE, message |-> <<>>,
             paired |-> <<>>]

NoCall == [cls |-> "", before |-> None, after |-> None, made |-> 0, exc |-> "",
           returned |-> None]

SettingsIdle ==
    /\ SettingsContext = None
    /\ environ = "valid"
    /\ created = 0
    /\ call = NoCall

ComparatorIdle ==
    /\ phase = "idle"
    /\ classes = <<>>
    /\ files = <<>>
    /\ GENERATED_SCHEMAS = D(<<>>)
    /\ SPECIFIED_SCHEMAS = D(<<>>)
    /\ ENTITY_TYPES_AND_FIELD_NAMES_BY_FQN = <<>>
    /\ report = NoReport

Init ==
    /\ ComparatorIdle
    /\ SettingsIdle
    /\ pc = "raw"
    /\ field \in FieldNames
    /\ hashOrder \in HashOrders
    /\ \/ \E i \in 1..Len(Leaves) : obj = Leaves[i]
       \/ \E b \in 1..Len(Bases), q \in {"anyOf", "allOf"}, ixs \in AltLists(MaxAlts) :
             obj = UnionFragment(b, q, ixs)
       \/ \E q \in HashOrders, i1, i2 \in 1..Len(Alternatives) :
             obj = BothFragment(q[1], i1, q[2], i2)
    /\ out = Unset
    /\ again = Unset
    /\ permuted = Unset.obj
    /\ outPerm = Unset
    /\ elsewhere = Unset

\* prepare_field(field, obj)
Prepare ==
    /\ pc = "raw"
    /\ out' = prepare_field(field, obj, hashOrder)
    /\ pc' = "prepared"
    /\ UNCHANGED <<field, obj, hashOrder, again, permuted, outPerm, elsewhere, comparatorVars, settingsVars>>

\* prepare_field on the fragment the first call normalized
PrepareAgain ==
    /\ pc = "prepared"
    /\ ~Raised(out)
    /\ again' = prepare_field(field, out.obj, hashOrder)
    /\ pc' = "again"
    /\ UNCHANGED <<field, obj, hashOrder, out, permuted, outPerm, elsewhere, comparatorVars, settingsVars>>

\* the list with the items at i and j exchanged
Swap(lst, i, j) == L([lst.v EXCEPT ![i] = lst.v[j], ![j] = lst.v[i]])

\* prepare_field on the raw fragment with two alternatives of one of its
\* union lists exchanged
PreparePermuted ==
    /\ pc = "prepared"
    /\ \E q \in {"anyOf", "allOf"} :
          /\ Has(obj, q)
          /\ IsList(Get(obj, q))
          /\ \E i, j \in 1..Len(Get(obj, q).v) :
                /\ i < j
                /\ permuted' = Set(obj, q, Swap(Get(obj, q), i, j))
    /\ outPerm' = prepare_field(field, permuted', hashOrder)
    /\ pc' = "permuted"
    /\ UNCHANGED <<field, obj, hashOrder, out, again, elsewhere, comparatorVars, settingsVars>>

\* prepare_field on an equal fragment in another process, whose hash seed
\* gives the set of union keys an iteration order of its own
PrepareElsewhere ==
    /\ pc = "prepared"
    /\ \E order \in HashOrders :
          elsewhere' = prepare_field(field, obj, order)
    /\ pc' = "elsewhere"
    /\ UNCHANGED <<field, obj, hashOrder, out, again, permuted, outPerm, comparatorVars, settingsVars>>

Next == Prepare \/ PrepareAgain \/ PreparePermuted \/ PrepareElsewhere

Spec == Init /\ [][Next]_vars

----------------------------------------------------------------------------
(* Properties of the normalizer *)

UnionKeys == {"anyOf", "allOf"}

\* every key of part is in whole, with an equal value
Contains(whole, part) ==
    \A i \in 1..Len(part.v) :
        /\ Has(whole, part.v[i][1])
        /\ JEq(Get(whole, part.v[i][1]), part.v[i][2])

\* the value of the union key is a list of exactly one dict
SingleDict(d, q) ==
    /\ Has(d, q)
    /\ IsList(Get(d, q))
    /\ Len(Get(d, q).v) = 1
    /\ IsDict(Get(d, q).v[1])

\* C1: a second prepare_field on a fragment the first one normalized
\* completes and leaves the fragment as it was.
C1_Idempotent ==
    pc = "again" => ~Raised(again) /\ JEq(again.obj, out.obj)

\* C2: prepare_field on a fragment with the alternatives of a union list
\* permuted gives a fragment equal (Python's ==) to the one it gives on the
\* fragment as written.
C2_OrderIndependent ==
    (pc = "permuted" /\ ~Raised(out)) =>
        ~Raised(outPerm) /\ JEq(outPerm.obj, out.obj)

\* no rule of prepare_field applies to the dict
MatchesNoRule(d) ==
    /\ IsDict(d)
    /\ \A k \in {"sameAs", "subPropertyOf", "description", "title", "useScheme",
                 "$ref", "anyOf", "allOf"} : ~Has(d, k)
    /\ ~IsDateLike(d)
    /\ ~GetIs(d, "pattern", MEX_ID_PATTERN)
    /\ ~GetIs(d, "type", "array")

\* C3: prepare_field raises on no fragment, and leaves a fragment that
\* matches no rule as it was.
C3_NeverRaises ==
    pc = "prepared" =>
        /\ ~Raised(out)
        /\ MatchesNoRule(obj) => out.obj = obj

\* C4, as claimed: a union list of exactly one dict alternative is gone after
\* prepare_field, and the fragment holds every key and value of the
\* normalized alternative, also when that is the empty dict.
C4_AlwaysDissolved ==
    (pc = "prepared" /\ ~Raised(out)) =>
        \A q \in UnionKeys :
            SingleDict(obj, q) =>
                /\ ~Has(out.obj, q)
                /\ Contains(out.obj,
                            prepare_field(field, Get(obj, q).v[1], hashOrder).obj)

\* the fragment has the union key q and not the other one
OnlyUnion(d, q) == Has(d, q) /\ \A k \in UnionKeys \ {q} : ~Has(d, k)

\* C4, amended: on a fragment with one union key whose list is exactly one
\* dict alternative, an alternative that normalizes to a non-empty dict is
\* merged into the fragment, which keeps the union key only if the normalized
\* alternative carries it; an alternative that normalizes to the empty dict
\* is dropped and leaves the union key with an empty list.
C4_SingleChoiceDissolved ==
    (pc = "prepared" /\ ~Raised(out)) =>
        \A q \in UnionKeys :
            (IsDict(obj) /\ OnlyUnion(obj, q) /\ SingleDict(obj, q)) =>
                LET alt == prepare_field(field, Get(obj, q).v[1], hashOrder).obj
                IN IF Truthy(alt)
                   THEN /\ Contains(out.obj, alt)
                        /\ Has(out.obj, q) <=> Has(alt, q)
                   ELSE /\ Has(out.obj, q)
                        /\ Get(out.obj, q) = L(<<>>)

\* C4, reached: a single alternative was merged into its parent
C4_Witness ==
    /\ pc = "prepared"
    /\ ~Raised(out)
    /\ \E q \in UnionKeys :
          /\ IsDict(obj) /\ OnlyUnion(obj, q) /\ SingleDict(obj, q)
          /\ ~Has(out.obj, q)
          /\ Has(out.obj, "type")
          /\ ~Has(obj, "type")

\* no union list in the value holds two alternatives that are equal dicts
RECURSIVE NoEqualAlternatives(_)
NoEqualAlternatives(x) ==
    IF IsList(x) THEN \A i \in 1..Len(x.v) : NoEqualAlternatives(x.v[i])
    ELSE IF IsDict(x)
    THEN \A i \in 1..Len(x.v) :
            /\ NoEqualAlternatives(x.v[i][2])
            /\ (x.v[i][1] \in UnionKeys /\ IsList(x.v[i][2])) =>
                   \A j, k \in 1..Len(x.v[i][2].v) :
                       (j < k /\ IsDict(x.v[i][2].v[j]) /\ IsDict(x.v[i][2].v[k]))
                           => ~JEq(x.v[i][2].v[j], x.v[i][2].v[k])
    ELSE TRUE

\* C5: after prepare_field no union list left on the fragment holds two
\* alternatives that are equal as dicts.
C5_Deduplicated ==
    (pc = "prepared" /\ ~Raised(out)) => NoEqualAlternatives(out.obj)

\* what C6 claims of the normalized fragment of a date-like fragment
DateUnified(raw, normalized) ==
    /\ GetIs(normalized, "format", "date-time")
    /\ ~Has(normalized, "pattern")
    /\ ~Has(normalized, "examples")
    /\ ~Has(raw, "$ref") => ~Has(normalized, "$ref")
    /\ Has(raw, "type") => Has(normalized, "type")

\* C6, as claimed: every dict fragment with format date or date-time, or with
\* the timestamp pattern, comes out with format date-time, without pattern
\* and examples, and not rewritten into a reference.
C6_AlwaysDateTime ==
    (pc = "prepared" /\ ~Raised(out) /\ IsDict(obj) /\ IsDateLike(obj)) =>
        DateUnified(obj, out.obj)

\* the union list of the fragment collapses to one dict, which prepare_field
\* merges into the fragment
Collapses(fieldName, d, q, order) ==
    /\ Has(d, q)
    /\ LET r == prepare_field(fieldName, Get(d, q), order)
       IN /\ ~Raised(r)
          /\ LET lst == Get(deduplicate_dicts(Set(d, q, r.obj), q), q)
             IN Len(lst.v) = 1 /\ IsDict(lst.v[1])

\* C6, amended: the same, for the date-like fragments none of whose union
\* lists collapses to a single alternative that is merged into the fragment
\* (the merge can bring the alternative's own format, pattern or examples).
C6_DateTimeUnlessMerged ==
    (/\ pc = "prepared" /\ ~Raised(out) /\ IsDict(obj) /\ IsDateLike(obj)
     /\ \A q \in UnionKeys : ~Collapses(field, obj, q, hashOrder)) =>
        DateUnified(obj, out.obj)

\* C6, reached: a date fragment with the identifier pattern was unified, and
\* one with a union list that stays was
C6_Witness ==
    /\ pc = "prepared"
    /\ ~Raised(out)
    /\ GetIs(obj, "format", "date")
    /\ \/ GetIs(obj, "pattern", MEX_ID_PATTERN)
       \/ \E q \in UnionKeys : Has(obj, q) /\ Has(out.obj, q)
    /\ DateUnified(obj, out.obj)

\* the fragment {type: string, pattern: MEX_ID_PATTERN}, with or without a
\* title
IsIdentifierFragment(d) ==
    /\ IsDict(d)
    /\ {d.v[i][1] : i \in 1..Len(d.v)} \in {{"pattern", "type"}, {"pattern", "type", "title"}}
    /\ GetIs(d, "pattern", MEX_ID_PATTERN)
    /\ GetIs(d, "type", "string")
    /\ Has(d, "title") => IsStr(Get(d, "title"))

\* C7: prepare_field turns {type: string, pattern: MEX_ID_PATTERN} into the
\* shared identifier reference for the fields identifier and stableTargetId,
\* and for any other field into the reference to the identifier of the entity
\* named by the kebab-cased title without its suffix Identifier and its
\* prefixes Merged and Extracted.
C7_IdentifierReference ==
    (pc = "prepared" /\ IsIdentifierFragment(obj)) =>
        LET title == IF Has(obj, "title") THEN Get(obj, "title").v ELSE ""
            name == dromedary_to_kebab(
                        removeprefix(removeprefix(removesuffix(title, "Identifier"),
                                                  "Merged"), "Extracted"))
        IN /\ ~Raised(out)
           /\ out.obj = D(<< <<"$ref",
                  S(IF field \in {"identifier", "stableTargetId"}
                    THEN "/schema/fields/identifier"
                    ELSE "/schema/entities/" \o name \o "#/identifier")>> >>)
           /\ (title = "ResourceIdentifier" /\ field = "contact") =>
                  Get(out.obj, "$ref").v = "/schema/entities/resource#/identifier"

\* C7, reached: a reference to an entity was derived from a prefixed title
C7_Witness ==
    /\ pc = "prepared"
    /\ IsIdentifierFragment(obj)
    /\ field = "contact"
    /\ obj = IdentifierType("ExtractedOrganizationalUnitIdentifier")
    /\ out = Ok(D(<< <<"$ref", S("/schema/entities/organizational-unit#/identifier")>> >>))

\* C8: for every vocabulary, the concept reference with its useScheme and the
\* reference to the enum class both normalize to the reference to the
\* vocabulary in kebab-case, without useScheme.
C8_VocabularyBinding ==
    pc = "prepared" =>
        \A k \in 1..Len(Vocabularies) :
            (obj \in {ConceptField(Vocabularies[k][1]), EnumField(Vocabularies[k][2])})
                => out = Ok(D(<< <<"$ref", S("/schema/fields/" \o Vocabularies[k][1])>> >>))

\* C8, reached: an enum class of several capitals and a useScheme were both
\* normalized
C8_Witness ==
    /\ pc = "prepared"
    /\ obj \in {ConceptField("api-type"), EnumField("APIType")}
    /\ out = Ok(D(<< <<"$ref", S("/schema/fields/api-type")>> >>))

\* C12: two runs of prepare_field on equal inputs end alike, both with the
\* same exception or both with equal fragments, whatever order the union keys
\* anyOf and allOf are visited in.
C12_Deterministic ==
    pc = "elsewhere" =>
        /\ elsewhere.exc = out.exc
        /\ ~Raised(out) => JEq(elsewhere.obj, out.obj)

----------------------------------------------------------------------------
(* Loading the two schema sets *)

\* the characters of entity and field names, in the order Python compares them
CodeOrder ==
    " $-.0123456789ABCDEFGHIJKLMNOPQRSTUVWXYZ_abcdefghijklmnopqrstuvwxyz"
OrdOf == [c \in {CharAt(CodeOrder, i) : i \in 1..Len(CodeOrder)} |->
             CHOOSE i \in 1..Len(CodeOrder) : CharAt(CodeOrder, i) = c]
Ord(c) == OrdOf[c]

\* a < b on str
RECURSIVE StrLess(_, _)
StrLess(a, b) ==
    IF b = "" THEN FALSE
    ELSE IF a = "" THEN TRUE
    ELSE IF CharAt(a, 1) = CharAt(b, 1) THEN StrLess(Tail(a), Tail(b))
    ELSE Ord(CharAt(a, 1)) < Ord(CharAt(b, 1))

\* sorted(pairs) for pairs with distinct keys
RECURSIVE sorted(_)
sorted(pairs) ==
    IF pairs = <<>> THEN <<>>
    ELSE LET least == CHOOSE i \in 1..Len(pairs) :
                          \A j \in 1..Len(pairs) : j = i \/ StrLess(pairs[i][1], pairs[j][1])
         IN <<pairs[least]>>
            \o sorted(SubSeq(pairs, 1, least - 1) \o SubSeq(pairs, least + 1, Len(pairs)))

\* str.replace(" ", "")
RECURSIVE RemoveSpaces(_)
RemoveSpaces(s) ==
    IF s = "" THEN ""
    ELSE (IF CharAt(s, 1) = " " THEN "" ELSE CharAt(s, 1)) \o RemoveSpaces(Tail(s))

Keys(dct) == [i \in 1..Len(dct.v) |-> dct.v[i][1]]
Values(dct) == [i \in 1..Len(dct.v) |-> dct.v[i][2]]

\* GENERATED_SCHEMAS: the schema of every model class under the class name
\* without its prefix Extracted, sorted by name
LoadGenerated(modelClasses) ==
    LET byName == UpdatePairs(D(<<>>),
                      [i \in 1..Len(modelClasses) |->
                          <<removeprefix(modelClasses[i][1], "Extracted"),
                            modelClasses[i][2]>>])
    IN D(sorted(byName.v))

\* the documents the comprehension of SPECIFIED_SCHEMAS keeps
KeptDocument(schema) ==
    Truthy(schema) /\ ~startswith(Get(schema, "title").v, "Concept")

\* SPECIFIED_SCHEMAS: every document of the directory that is not a concept,
\* under its title without spaces, sorted by name
LoadSpecified(documents) ==
    LET kept == SelectSeq(documents, KeptDocument)
        byName == UpdatePairs(D(<<>>),
                      [i \in 1..Len(kept) |->
                          <<RemoveSpaces(Get(kept[i], "title").v), kept[i]>>])
    IN D(sorted(byName.v))

\* the (entity_type, field_name) of every property of every specified schema
RECURSIVE FlattenFields(_, _)
FlattenFields(schemas, i) ==
    IF i > Len(schemas.v) THEN <<>>
    ELSE LET names == Keys(Get(schemas.v[i][2], "properties"))
         IN [k \in 1..Len(names) |-> <<schemas.v[i][1], names[k]>>]
            \o FlattenFields(schemas, i + 1)

FieldsByFqn(specifiedSchemas) == FlattenFields(specifiedSchemas, 1)

\* the content of a file that is not JSON
MalformedFile == [t |-> "malformed", v |-> "{title: "]

\* json.load(open(file_name)): the document of the file, or the exception
json_load(file) ==
    IF file.t = "malformed" THEN Raise("JSONDecodeError", file) ELSE Ok(file)

\* the exception that ends the comprehension of SPECIFIED_SCHEMAS, "" if none:
\* the files are read in turn, a falsy document ends the condition before
\* schema["title"] is read
RECURSIVE SpecifiedFailure(_, _)
SpecifiedFailure(fileContents, i) ==
    IF i > Len(fileContents) THEN ""
    ELSE LET loaded == json_load(fileContents[i])
         IN IF Raised(loaded) THEN loaded.exc
            ELSE IF ~Truthy(loaded.obj) THEN SpecifiedFailure(fileContents, i + 1)
            ELSE IF ~Has(loaded.obj, "title") THEN "KeyError"
            ELSE SpecifiedFailure(fileContents, i + 1)

\* the exception that ends the comprehension of
\* ENTITY_TYPES_AND_FIELD_NAMES_BY_FQN, "" if none
FieldsFailure(specifiedSchemas) ==
    IF \E i \in 1..Len(specifiedSchemas.v) :
           ~Has(specifiedSchemas.v[i][2], "properties")
    THEN "KeyError"
    ELSE ""

----------------------------------------------------------------------------
(* The documents *)

EntityNames == <<"Organization", "Organizational Unit", "Variable">>

ClassName(entity) == "Extracted" \o RemoveSpaces(entity)

TextRef(path) == ArrayOf(D(<< <<"$ref", S(path)>> >>))
NullType == D(<< <<"type", S("null")>> >>)

\* the fields of an entity only, as the specification writes them
SpecifiedOwnFields(entity) ==
    IF entity = "Organization"
    THEN << <<"officialName", TextRef("/schema/fields/text")>> >>
    ELSE IF entity = "Organizational Unit"
    THEN << <<"parentUnit",
              D(<< <<"anyOf", L(<< D(<< <<"$ref",
                     S("/schema/entities/organizational-unit#/identifier")>> >>),
                     NullType >>)>>,
                   <<"sameAs", S("http://www.w3.org/ns/org#unitOf")>> >>)>> >>
    ELSE << <<"dataType", ConceptField("data-type")>>,
            <<"created", DateType>> >>

\* a document of the entities directory
SpecifiedDocument(entity) ==
    D(<< <<"title", S(entity)>>,
         <<"properties",
           D(<< <<"identifier", D(<< <<"$ref", S(IDENTIFIER_REF)>> >>)>>,
                <<"stableTargetId", D(<< <<"$ref", S(IDENTIFIER_REF)>> >>)>> >>
             \o SpecifiedOwnFields(entity))>>,
         <<"required", L(<<S("identifier"), S("stableTargetId")>>)>> >>)

ConceptDocument ==
    D(<< <<"title", S("Concept")>>,
         <<"properties", D(<< <<"identifier", D(<< <<"$ref", S(IDENTIFIER_REF)>> >>)>> >>)>>,
         <<"required", L(<<S("identifier")>>)>> >>)

\* documents of the entities directory that are not entity schemas
EmptyDocument == D(<<>>)
UntitledDocument ==
    D(<< <<"properties", D(<< <<"identifier", D(<< <<"$ref", S(IDENTIFIER_REF)>> >>)>> >>)>> >>)
NoPropertiesDocument == D(<< <<"title", S("Primary Source")>> >>)
OtherFiles ==
    {<<>>, <<MalformedFile>>, <<EmptyDocument>>, <<UntitledDocument>>,
     <<NoPropertiesDocument>>}

\* the fields of an entity only, as pydantic generates them; a drifted model
\* has left the specification
GeneratedOwnFields(entity, drifted) ==
    IF entity = "Organization"
    THEN IF drifted THEN <<>>
         ELSE << <<"officialName", Set(TextRef("/schema/fields/Text"),
                                       "title", S("Officialname"))>> >>
    ELSE IF entity = "Organizational Unit"
    THEN << <<"parentUnit",
              D(<< <<"anyOf", L(<< IF drifted
                                   THEN D(<< <<"pattern", S(MEX_ID_PATTERN)>> >>)
                                   ELSE IdentifierType("MergedOrganizationalUnitIdentifier"),
                                   NullType >>)>>,
                   <<"title", S("Parentunit")>> >>)>> >>
    ELSE << <<"dataType", EnumField(IF drifted THEN "License" ELSE "DataType")>>,
            <<"created", TimestampType>> >>

\* model.model_json_schema(ref_template="/schema/fields/{model}")
GeneratedSchema(entity, drifted) ==
    D(<< <<"title", S(ClassName(entity))>>,
         <<"properties",
           D(<< <<"$type", D(<< <<"const", S(ClassName(entity))>>,
                                <<"title", S("$Type")>> >>)>>,
                <<"identifier",
                  IdentifierType(ClassName(entity) \o "Identifier")>>,
                <<"stableTargetId",
                  IdentifierType("Merged" \o RemoveSpaces(entity) \o "Identifier")>> >>
             \o GeneratedOwnFields(entity, drifted))>>,
         <<"required",
           L(<<S("$type"), S("identifier")>>
             \o (IF drifted THEN <<>> ELSE <<S("stableTargetId")>>))>> >>)

\* the sequence of the items chosen by the set of indices, in their order
RECURSIVE Chosen(_, _, _)
Chosen(items, ixs, i) ==
    IF i > Len(items) THEN <<>>
    ELSE (IF i \in ixs THEN <<items[i]>> ELSE <<>>) \o Chosen(items, ixs, i + 1)

----------------------------------------------------------------------------
(* The tests *)

\* zip_longest(a, b)
zip_longest(a, b) ==
    [i \in 1..(IF Len(a) > Len(b) THEN Len(a) ELSE Len(b)) |->
        <<IF i <= Len(a) THEN a[i] ELSE None, IF i <= Len(b) THEN b[i] ELSE None>>]

KeySet(dct) == {dct.v[i][1] : i \in 1..Len(dct.v)}
StrSet(lst) == {lst.v[i].v : i \in 1..Len(lst.v)}

Passed(test, id, paired) ==
    [test |-> test, id |-> id, exc |-> "", passed |-> TRUE, message |-> <<>>,
     paired |-> paired]
Failed(test, id, exc, message, paired) ==
    [test |-> test, id |-> id, exc |-> exc, passed |-> FALSE, message |-> message,
     paired |-> paired]

\* test_entity_types_match_spec
test_entity_types_match_spec(generatedSchemas, specifiedSchemas) ==
    IF Keys(generatedSchemas) = Keys(specifiedSchemas)
    THEN Passed("entity_types", "", <<>>)
    ELSE Failed("entity_types", "", "AssertionError", <<>>, <<>>)

\* test_field_names_match_spec
test_field_names_match_spec(id, generated, specified, paired) ==
    IF generated = None \/ specified = None
    THEN Failed("field_names", id, "TypeError", <<>>, paired)
    ELSE LET names == KeySet(Get(generated, "properties")) \ {"$type"}
         IN IF names = KeySet(Get(specified, "properties"))
            THEN Passed("field_names", id, paired)
            ELSE Failed("field_names", id, "AssertionError", <<>>, paired)

\* a in b on str
Contained(a, b) ==
    \E i \in 1..(Len(b) - Len(a) + 1) : SubSeq(b, i, i + Len(a) - 1) = a

\* test_entity_type_matches_class_name
test_entity_type_matches_class_name(id, generated, specified, paired) ==
    IF generated = None \/ specified = None
    THEN Failed("entity_type", id, "TypeError", <<>>, paired)
    ELSE LET const == Get(Get(Get(generated, "properties"), "$type"), "const")
         IN IF /\ JEq(Get(generated, "title"), const)
               /\ Contained(RemoveSpaces(Get(specified, "title").v), const.v)
            THEN Passed("entity_type", id, paired)
            ELSE Failed("entity_type", id, "AssertionError", <<>>, paired)

\* test_required_fields_match_spec
test_required_fields_match_spec(id, generated, specified, paired) ==
    IF generated = None \/ specified = None
    THEN Failed("required_fields", id, "TypeError", <<>>, paired)
    ELSE IF StrSet(Get(generated, "required")) = StrSet(Get(specified, "required"))
    THEN Passed("required_fields", id, paired)
    ELSE Failed("required_fields", id, "AssertionError", <<>>, paired)

\* json.dumps(x, sort_keys=True), the indentation left out
RECURSIVE SortKeys(_)
SortKeys(x) ==
    IF IsList(x) THEN L([i \in 1..Len(x.v) |-> SortKeys(x.v[i])])
    ELSE IF IsDict(x)
    THEN D(sorted([i \in 1..Len(x.v) |-> <<x.v[i][1], SortKeys(x.v[i][2])>>]))
    ELSE x
json_dumps_sorted(x) == json_dumps(SortKeys(x))

\* the message of the assertion of test_field_defs_match_spec
Diagnostic(entity, fieldName, specifiedRaw, generatedRaw) ==
    << entity \o "." \o fieldName,
       "specified:", json_dumps_sorted(specifiedRaw),
       "generated:", json_dumps_sorted(generatedRaw) >>

\* no copy: the object of the schema set itself
deepcopy_left_out(x) == [shared |-> TRUE, val |-> x]

\* copy.deepcopy: a new object that shares nothing with the schema sets
deepcopy(x) == [shared |-> FALSE, val |-> x]

\* the schema set after prepare_field worked in place on the object that ref
\* names, which left it as result
InPlace(schemas, entity, fieldName, ref, result) ==
    IF ref.shared
    THEN LET schema == Get(schemas, entity)
         IN Set(schemas, entity,
                Set(schema, "properties",
                    Set(Get(schema, "properties"), fieldName, result)))
    ELSE schemas

\* test_field_defs_match_spec: the report, and the two schema sets as the test
\* leaves them
test_field_defs_match_spec(generatedSchemas, specifiedSchemas, entity, fieldName, order) ==
    LET id == entity \o "." \o fieldName
        untouched(r) == [report |-> r, generated |-> generatedSchemas,
                         specified |-> specifiedSchemas]
    IN IF ~Has(generatedSchemas, entity)
       THEN untouched(Failed("field_defs", id, "KeyError", <<>>, <<>>))
       ELSE
       LET specified_properties == Get(Get(specifiedSchemas, entity), "properties")
           generated_properties == Get(Get(generatedSchemas, entity), "properties")
       IN IF ~Has(generated_properties, fieldName)
          THEN untouched(Failed("field_defs", id, "KeyError", <<>>, <<>>))
          ELSE
          LET specified == deepcopy(Get(specified_properties, fieldName))
              generated == deepcopy(Get(generated_properties, fieldName))
              rs == prepare_field(fieldName, specified.val, order)
              specified1 == InPlace(specifiedSchemas, entity, fieldName, specified, rs.obj)
          IN IF Raised(rs)
             THEN [report |-> Failed("field_defs", id, rs.exc, <<>>, <<>>),
                   generated |-> generatedSchemas, specified |-> specified1]
             ELSE
             LET rg == prepare_field(fieldName, generated.val, order)
                 generated1 == InPlace(generatedSchemas, entity, fieldName, generated, rg.obj)
             IN [generated |-> generated1, specified |-> specified1,
                 report |->
                     IF Raised(rg) THEN Failed("field_defs", id, rg.exc, <<>>, <<>>)
                     ELSE IF JEq(rg.obj, rs.obj) THEN Passed("field_defs", id, <<>>)
                     ELSE Failed("field_defs", id, "AssertionError",
                              Diagnostic(entity, fieldName,
                                  Get(Get(Get(specified1, entity), "properties"), fieldName),
                                  Get(Get(Get(generated1, entity), "properties"), fieldName)),
                              <<>>)]

----------------------------------------------------------------------------
(* The run of the test module *)

NormalizerIdle ==
    /\ pc = "idle"
    /\ field = ""
    /\ obj = Unset.obj
    /\ out = Unset
    /\ again = Unset
    /\ permuted = Unset.obj
    /\ outPerm = Unset
    /\ elsewhere = Unset

CompareInit ==
    /\ NormalizerIdle
    /\ SettingsIdle
    /\ hashOrder \in HashOrders
    /\ phase = "start"
    /\ \E ixs \in SUBSET (1..Len(EntityNames)), drifted \in BOOLEAN :
          classes = Chosen([i \in 1..Len(EntityNames) |->
                               <<ClassName(EntityNames[i]),
                                 GeneratedSchema(EntityNames[i], drifted)>>], ixs, 1)
    /\ \E ixs \in SUBSET (1..Len(EntityNames)), concept \in BOOLEAN, other \in OtherFiles :
          files = (IF concept THEN <<ConceptDocument>> ELSE <<>>)
                  \o other
                  \o Chosen([i \in 1..Len(EntityNames) |->
                                SpecifiedDocument(EntityNames[i])], ixs, 1)
    /\ GENERATED_SCHEMAS = D(<<>>)
    /\ SPECIFIED_SCHEMAS = D(<<>>)
    /\ ENTITY_TYPES_AND_FIELD_NAMES_BY_FQN = <<>>
    /\ report = NoReport

\* the import of the test module; an exception ends it where it is raised
LoadSchemas ==
    /\ phase = "start"
    /\ GENERATED_SCHEMAS' = LoadGenerated(classes)
    /\ IF SpecifiedFailure(files, 1) # ""
       THEN /\ phase' = "failed"
            /\ report' = Failed("import", "", SpecifiedFailure(files, 1), <<>>, <<>>)
            /\ UNCHANGED <<SPECIFIED_SCHEMAS, ENTITY_TYPES_AND_FIELD_NAMES_BY_FQN>>
       ELSE /\ SPECIFIED_SCHEMAS' = LoadSpecified(files)
            /\ IF FieldsFailure(SPECIFIED_SCHEMAS') # ""
               THEN /\ phase' = "failed"
                    /\ report' = Failed("import", "", FieldsFailure(SPECIFIED_SCHEMAS'),
                                        <<>>, <<>>)
                    /\ UNCHANGED ENTITY_TYPES_AND_FIELD_NAMES_BY_FQN
               ELSE /\ phase' = "loaded"
                    /\ ENTITY_TYPES_AND_FIELD_NAMES_BY_FQN' = FieldsByFqn(SPECIFIED_SCHEMAS')
                    /\ UNCHANGED report
    /\ UNCHANGED <<settingsVars, normalizerVars, hashOrder, classes, files>>

RunEntityTypes ==
    /\ phase = "loaded"
    /\ report' = test_entity_types_match_spec(GENERATED_SCHEMAS, SPECIFIED_SCHEMAS)
    /\ UNCHANGED <<settingsVars, normalizerVars, hashOrder, phase, classes, files,
                   GENERATED_SCHEMAS, SPECIFIED_SCHEMAS,
                   ENTITY_TYPES_AND_FIELD_NAMES_BY_FQN>>

\* pytest takes the parameter sets of the three paired tests when there are
\* as many ids (the names of GENERATED_SCHEMAS) as pairs
PairsCollected ==
    Len(SPECIFIED_SCHEMAS.v) <= Len(GENERATED_SCHEMAS.v)

\* the i-th parameter set: the id and the pair, with the entity names of the
\* two schemas
PairId(i) == GENERATED_SCHEMAS.v[i][1]
PairNames(i) ==
    << IF i <= Len(GENERATED_SCHEMAS.v) THEN GENERATED_SCHEMAS.v[i][1] ELSE "None",
       IF i <= Len(SPECIFIED_SCHEMAS.v) THEN SPECIFIED_SCHEMAS.v[i][1] ELSE "None" >>
Pair(i) ==
    zip_longest(Values(GENERATED_SCHEMAS), Values(SPECIFIED_SCHEMAS))[i]

RunFieldNames ==
    /\ phase = "loaded"
    /\ PairsCollected
    /\ \E i \in 1..Len(GENERATED_SCHEMAS.v) :
          report' = test_field_names_match_spec(PairId(i), Pair(i)[1], Pair(i)[2],
                                                PairNames(i))
    /\ UNCHANGED <<settingsVars, normalizerVars, hashOrder, phase, classes, files,
                   GENERATED_SCHEMAS, SPECIFIED_SCHEMAS,
                   ENTITY_TYPES_AND_FIELD_NAMES_BY_FQN>>

RunEntityType ==
    /\ phase = "loaded"
    /\ PairsCollected
    /\ \E i \in 1..Len(GENERATED_SCHEMAS.v) :
          report' = test_entity_type_matches_class_name(PairId(i), Pair(i)[1], Pair(i)[2],
                                                        PairNames(i))
    /\ UNCHANGED <<settingsVars, normalizerVars, hashOrder, phase, classes, files,
                   GENERATED_SCHEMAS, SPECIFIED_SCHEMAS,
                   ENTITY_TYPES_AND_FIELD_NAMES_BY_FQN>>

RunRequiredFields ==
    /\ phase = "loaded"
    /\ PairsCollected
    /\ \E i \in 1..Len(GENERATED_SCHEMAS.v) :
          report' = test_required_fields_match_spec(PairId(i), Pair(i)[1], Pair(i)[2],
                                                    PairNames(i))
    /\ UNCHANGED <<settingsVars, normalizerVars, hashOrder, phase, classes, files,
                   GENERATED_SCHEMAS, SPECIFIED_SCHEMAS,
                   ENTITY_TYPES_AND_FIELD_NAMES_BY_FQN>>

RunFieldDefs ==
    /\ phase = "loaded"
    /\ LET params == ENTITY_TYPES_AND_FIELD_NAMES_BY_FQN
       IN \E k \in 1..Len(params) :
             LET after == test_field_defs_match_spec(GENERATED_SCHEMAS, SPECIFIED_SCHEMAS,
                                                     params[k][1], params[k][2], hashOrder)
             IN /\ report' = after.report
                /\ GENERATED_SCHEMAS' = after.generated
                /\ SPECIFIED_SCHEMAS' = after.specified
    /\ UNCHANGED <<settingsVars, normalizerVars, hashOrder, phase, classes, files,
                   ENTITY_TYPES_AND_FIELD_NAMES_BY_FQN>>

CompareNext ==
    \/ LoadSchemas
    \/ RunEntityTypes
    \/ RunFieldNames
    \/ RunEntityType
    \/ RunRequiredFields
    \/ RunFieldDefs

CompareSpec == CompareInit /\ [][CompareNext]_vars

----------------------------------------------------------------------------
(* Properties of the comparator *)

\* the fragment of a field in a schema set
Fragment(schemas, entity, fieldName) ==
    Get(Get(Get(schemas, entity), "properties"), fieldName)

\* C9: the comparisons leave GENERATED_SCHEMAS and SPECIFIED_SCHEMAS as they
\* were loaded, whatever ran before; each comparison reports what it reports
\* on the schema sets as loaded, and a failed comparison shows the two
\* fragments as loaded.
C9_ComparisonsIsolated ==
    phase = "loaded" =>
        /\ GENERATED_SCHEMAS = LoadGenerated(classes)
        /\ SPECIFIED_SCHEMAS = LoadSpecified(files)
        /\ report.test = "field_defs" =>
              \E k \in 1..Len(ENTITY_TYPES_AND_FIELD_NAMES_BY_FQN) :
                  LET entity == ENTITY_TYPES_AND_FIELD_NAMES_BY_FQN[k][1]
                      fieldName == ENTITY_TYPES_AND_FIELD_NAMES_BY_FQN[k][2]
                      alone == test_field_defs_match_spec(
                                   LoadGenerated(classes), LoadSpecified(files),
                                   entity, fieldName, hashOrder).report
                  IN /\ report.id = entity \o "." \o fieldName
                     /\ report.passed = alone.passed
                     /\ report.exc = alone.exc
                     /\ report.exc = "AssertionError" =>
                            report.message =
                                << report.id,
                                   "specified:",
                                   json_dumps_sorted(
                                       Fragment(LoadSpecified(files), entity, fieldName)),
                                   "generated:",
                                   json_dumps_sorted(
                                       Fragment(LoadGenerated(classes), entity, fieldName)) >>

\* C9, reached: a comparison failed and shows the two raw fragments
C9_Witness ==
    /\ phase = "loaded"
    /\ report.test = "field_defs"
    /\ report.id = "Variable.dataType"
    /\ report.exc = "AssertionError"
    /\ report.message =
           << "Variable.dataType",
              "specified:", json_dumps_sorted(ConceptField("data-type")),
              "generated:", json_dumps_sorted(EnumField("License")) >>

\* C10: the field-name, discriminant and required-field tests get the
\* generated and the specified schema of one entity, and the field-name test
\* passes exactly when the property names of that entity, $type left out of
\* the generated ones, are the same on both sides.
C10_PairsSameEntity ==
    report.test \in {"field_names", "entity_type", "required_fields"} =>
        /\ report.paired[1] = report.paired[2]
        /\ report.test = "field_names" =>
              (report.passed <=>
                  /\ Has(SPECIFIED_SCHEMAS, report.id)
                  /\ KeySet(Get(Get(GENERATED_SCHEMAS, report.id), "properties")) \ {"$type"}
                         = KeySet(Get(Get(SPECIFIED_SCHEMAS, report.id), "properties")))

----------------------------------------------------------------------------
(* Properties of the loading *)

\* a file that is not JSON, or whose document has no title
LacksTitle(file) == file.t = "malformed" \/ ~Has(file, "title")

\* files whose document has a title that does not start with Concept
EntityFiles == SelectSeq(files, LAMBDA f : ~LacksTitle(f) /\ KeptDocument(f))

\* C11: the import fails with an exception whenever a file of the entities
\* directory is not JSON or its document has no title, the empty document {}
\* included; an import that went through holds, under the title without
\* spaces, every document whose title does not start with Concept.
C11_BadFileFailsLoading ==
    phase # "start" =>
        /\ (\E i \in 1..Len(files) : LacksTitle(files[i])) =>
               (phase = "failed" /\ report.exc # "")
        /\ phase = "loaded" =>
               /\ KeySet(SPECIFIED_SCHEMAS)
                      = {RemoveSpaces(Get(EntityFiles[i], "title").v) :
                             i \in 1..Len(EntityFiles)}
               /\ \A i \in 1..Len(EntityFiles) :
                      Get(SPECIFIED_SCHEMAS,
                          RemoveSpaces(Get(EntityFiles[i], "title").v)) = EntityFiles[i]

----------------------------------------------------------------------------
(* The settings context *)

MaxInstances == 3

\* BaseSettings and classes derived from it, each with its base class
SettingsClasses == {"BaseSettings", "SubSettings", "SubSubSettings", "OtherSettings"}
Superclass(cls) ==
    IF cls = "SubSubSettings" THEN "SubSettings" ELSE "BaseSettings"

\* issubclass(cls, base)
RECURSIVE issubclass(_, _)
issubclass(cls, base) ==
    \/ cls = base
    \/ cls # "BaseSettings" /\ issubclass(Superclass(cls), base)

\* isinstance(settings, cls)
isinstance(settings, cls) == settings # None /\ issubclass(settings.cls, cls)

\* cls.parse_obj({}): a new instance built from the environment, or the
\* validation error of the environment
parse_obj(cls, env, count) ==
    IF env = "valid"
    THEN Ok([t |-> "settings", cls |-> cls, id |-> count + 1])
    ELSE Raise("ValidationError", None)

\* SettingsContext.set(value), left out
ContextVar_set_left_out(old, value) == old

\* SettingsContext.set(value)
ContextVar_set(old, value) == value

\* cls.get()
get(cls) ==
    IF SettingsContext = None
    THEN LET parsed == parse_obj(cls, environ, created)
         IN IF Raised(parsed)
            THEN /\ call' = [cls |-> cls, before |-> None, after |-> None, made |-> 0,
                             exc |-> parsed.exc, returned |-> None]
                 /\ UNCHANGED <<SettingsContext, created>>
            ELSE /\ created < MaxInstances
                 /\ created' = created + 1
                 /\ SettingsContext' = ContextVar_set(SettingsContext, parsed.obj)
                 /\ call' = [cls |-> cls, before |-> None, after |-> SettingsContext',
                             made |-> 1,
                             exc |-> IF isinstance(SettingsContext', cls) THEN ""
                                     ELSE "RuntimeError",
                             returned |-> IF isinstance(SettingsContext', cls)
                                          THEN SettingsContext' ELSE None]
    ELSE /\ call' = [cls |-> cls, before |-> SettingsContext, after |-> SettingsContext,
                     made |-> 0,
                     exc |-> IF isinstance(SettingsContext, cls) THEN ""
                             ELSE "RuntimeError",
                     returned |-> IF isinstance(SettingsContext, cls)
                                  THEN SettingsContext ELSE None]
         /\ UNCHANGED <<SettingsContext, created>>

\* a call of get on a class derived from BaseSettings
GetSettings ==
    /\ \E cls \in SettingsClasses \ {"BaseSettings"} : get(cls)
    /\ UNCHANGED <<environ, normalizerVars, hashOrder, comparatorVars>>

\* the fixture settings: BaseSettings.get()
settings ==
    /\ get("BaseSettings")
    /\ UNCHANGED <<environ, normalizerVars, hashOrder, comparatorVars>>

\* the fixture isolate_settings_context, after the test
isolate_settings_context ==
    /\ SettingsContext' = ContextVar_set(SettingsContext, None)
    /\ UNCHANGED <<environ, created, call, normalizerVars, hashOrder, comparatorVars>>

\* the environment changes between two calls
setenv ==
    /\ environ' = IF environ = "valid" THEN "invalid" ELSE "valid"
    /\ UNCHANGED <<SettingsContext, created, call, normalizerVars, hashOrder,
                   comparatorVars>>

SettingsInit ==
    /\ NormalizerIdle
    /\ ComparatorIdle
    /\ hashOrder \in HashOrders
    /\ SettingsContext = None
    /\ environ \in {"valid", "invalid"}
    /\ created = 0
    /\ call = NoCall

SettingsNext == GetSettings \/ settings \/ isolate_settings_context \/ setenv

SettingsSpec == SettingsInit /\ [][SettingsNext]_vars

----------------------------------------------------------------------------
(* Properties of the settings context *)

\* what every call of get that found settings in the context does: no
\* instance made, the context left as found, the cached settings returned to
\* a class they are an instance of and RuntimeError raised to any other
LaterCall ==
    /\ call.made = 0
    /\ call.after = call.before
    /\ IF isinstance(call.before, call.cls)
       THEN call.exc = "" /\ call.returned = call.before
       ELSE call.exc = "RuntimeError" /\ call.returned = None

\* the call made one instance of its class, cached it and returned it
FirstCallCached ==
    /\ call.made = 1
    /\ call.exc = ""
    /\ call.after # None
    /\ call.after.cls = call.cls
    /\ call.returned = call.after

\* C13, as claimed: a call of get that finds the context empty makes and
\* caches an instance of its class, every other call makes none and returns
\* the cached instance or raises RuntimeError, and the cached instance is
\* the one made last, after the context was found empty.
C13_FirstCallCaches ==
    /\ SettingsContext # None => SettingsContext.id = created
    /\ call.cls # "" =>
          IF call.before = None THEN FirstCallCached ELSE LaterCall

\* C13, amended: the same, for the calls that find the context empty and whose
\* instance the environment lets them build; a call that finds the context
\* empty and whose construction raises a validation error makes and caches
\* nothing and leaves the context empty.
C13_CachesWhenConstructed ==
    /\ SettingsContext # None => SettingsContext.id = created
    /\ call.cls # "" =>
          IF call.before # None THEN LaterCall
          ELSE IF call.exc = "ValidationError"
          THEN call.made = 0 /\ call.after = None /\ call.returned = None
          ELSE FirstCallCached

\* C13, reached: after a reset a second instance was made and cached, and a
\* class it is no instance of asked for it
C13_Witness ==
    /\ created = 2
    /\ SettingsContext # None
    /\ SettingsContext.id = 2
    /\ SettingsContext.cls = "SubSettings"
    /\ call.cls = "OtherSettings"
    /\ call.exc = "RuntimeError"
    /\ call.after = SettingsContext

====
